---- MODULE Spec2Model ----
(***************************************************************************)
(* Model of beast/http/impl/write.ipp: the synchronous write() and the     *)
(* asynchronous detail::write_op of the HTTP message serializer.           *)
(*                                                                         *)
(* One behaviour fixes a message (framing, close flag, header bytes) and a *)
(* Body Writer result script, and runs both engines on it, each on its own *)
(* stream and its own Body Writer instance.                                *)
(***************************************************************************)
EXTENDS Integers, Sequences, FiniteSets, TLC

VARIABLES msg, script, s, a

vars == <<msg, script, s, a>>

(***************************************************************************)
(* Bounds                                                                  *)
(***************************************************************************)
\* longest Body Writer result script (produce calls up to Done or error)
MaxScript == 3
\* produce calls past the end of the script that may still continue
MaxExtra == 1
\* invocations of operator() that may begin while another one is unfinished
MaxRaces == 1

(***************************************************************************)
(* Bytes                                                                   *)
(***************************************************************************)
CRLF == <<"CR", "LF">>

\* "HTTP/1.1 200 OK\r\n": 17 bytes
Hdr17 == <<"H", "T", "T", "P", "/", "1", ".", "1", " ",
           "2", "0", "0", " ", "O", "K", "CR", "LF">>

hello == <<"h", "e", "l", "l", "o">>
world == <<"w", "o", "r", "l", "d">>

\* body slices a Body Writer may emit
Slices == {<<>>, hello, world}

\* the bodies written: the i-th emitted slice of each
Bodies == {"text", "empty"}

SliceAt(body, i) ==
    IF body = "empty" THEN <<>>
    ELSE IF i % 2 = 1 THEN hello ELSE world

\* slices a Body Writer emits when called past the end of its script
PostSlices == {<<>>, <<"x">>}

RECURSIVE Flatten(_)
Flatten(ss) == IF ss = <<>> THEN <<>> ELSE Head(ss) \o Flatten(Tail(ss))

(***************************************************************************)
(* Chunk framer                                                            *)
(***************************************************************************)
HexDigits == <<"0", "1", "2", "3", "4", "5", "6", "7",
               "8", "9", "a", "b", "c", "d", "e", "f">>

RECURSIVE to_hex(_)
to_hex(n) == IF n < 16 THEN <<HexDigits[n + 1]>>
             ELSE to_hex(n \div 16) \o <<HexDigits[(n % 16) + 1]>>

chunk_encode(buffers) == to_hex(Len(buffers)) \o CRLF \o buffers \o CRLF

chunk_encode_final == <<"0">> \o CRLF \o CRLF

(***************************************************************************)
(* Body Writer: result scripts                                             *)
(***************************************************************************)
NotDone(b) == [k |-> "NotDone", slice |-> b]
Done(b)    == [k |-> "Done", slice |-> b]
Suspended  == [k |-> "Suspended", slice |-> <<>>]
Failed     == [k |-> "Error", slice |-> <<>>]

Emits(r) == r.k \in {"NotDone", "Done"}

Continuing == {"NotDone", "Suspended"}
Ending     == {"Done", "Error"}

RECURSIVE SeqsUpTo(_, _)
SeqsUpTo(S, n) == IF n = 0 THEN {<<>>}
                  ELSE LET shorter == SeqsUpTo(S, n - 1)
                       IN  shorter \cup {Append(q, x) : q \in shorter, x \in S}

\* lifecycle: produce repeatedly until Done or error
Shapes == {Append(q, e) : q \in SeqsUpTo(Continuing, MaxScript - 1), e \in Ending}

\* the results of a Body Writer with the given shape over the given body:
\* the n-th emitting result carries the n-th slice of the body
RECURSIVE ScriptOf(_, _, _)
ScriptOf(shape, body, n) ==
    IF shape = <<>> THEN <<>>
    ELSE LET k == Head(shape)
         IN  IF k \in {"NotDone", "Done"}
             THEN <<[k |-> k, slice |-> SliceAt(body, n)]>>
                      \o ScriptOf(Tail(shape), body, n + 1)
             ELSE <<[k |-> k, slice |-> <<>>]>> \o ScriptOf(Tail(shape), body, n)

Scripts == {ScriptOf(shape, body, 1) : shape \in Shapes, body \in Bodies}

\* results a produce call may give after wpos earlier calls
WriterOutcomes(wpos) ==
    IF wpos < Len(script) THEN {script[wpos + 1]}
    ELSE {Done(b) : b \in PostSlices} \cup {Failed}
         \cup (IF wpos - Len(script) < MaxExtra
               THEN {NotDone(b) : b \in PostSlices} \cup {Suspended}
               ELSE {})

\* outcomes of one transport write
WriteResults == {"ok", "write_err"}

Messages == [chunked : BOOLEAN, close : BOOLEAN, header : {Hdr17}, initErr : BOOLEAN]


\* a Body Writer whose init failed has no produce lifecycle: one script stands for it
Inputs == {inp \in [m : Messages, sc : Scripts] :
              inp.m.initErr => inp.sc = <<Done(<<>>)>>}

\* framing applied where the buffers leave for the transport
Frame(buffers) == IF msg.chunked THEN chunk_encode(buffers) ELSE buffers

\* what the Body Writer leaves in the resume_context it was offered: it
\* takes the token when it suspends and leaves it alone otherwise
TokenAfter(copy, r) == IF r.k = "Suspended" THEN "empty" ELSE copy

\* wp.w(std::move(copy), ec, write) as seen by the engine e; r is the result
CallWriter(e, r) ==
    [e EXCEPT !.hist = Append(@, r),
              !.stale = @ \/ e.copy = "empty",
              !.copy = TokenAfter(@, r)]

(***************************************************************************)
(* Synchronous engine: write()                                             *)
(*   s.pc     position of the calling thread in write()                    *)
(*   s.sb     wp.sb, the serialized header not yet consumed                *)
(*   s.ec     the caller's error_code                                      *)
(*   s.ready  the flag the resume token sets under the mutex               *)
(*   s.sleep  the calling thread is blocked inside cv.wait                 *)
(*   s.copy   "fresh" while copy holds a token, "empty" once moved from    *)
(*   s.stale  a produce call was handed an empty token                     *)
(*   s.token  "held" while the Body Writer holds an uninvoked token        *)
(*   s.log    payloads of the transport writes, in issue order             *)
(*   s.hist   results of the produce calls made so far                     *)
(*   s.terr   a transport write has reported an error                      *)
(*   s.nfinal writes of chunk_encode_final() issued                        *)
(***************************************************************************)
SyncInitial ==
    [pc |-> "start", sb |-> msg.header, ec |-> "ok", ready |-> FALSE,
     token |-> "none", log |-> <<>>, hist |-> <<>>, terr |-> FALSE,
     nfinal |-> 0, sleep |-> FALSE, copy |-> "fresh", stale |-> FALSE]

\* wp.w(...) with the write lambda of the first block
SyncCallHeaderBody(st, r, w) ==
    IF Emits(r)
    THEN [CallWriter(st, r) EXCEPT !.log = Append(@, st.sb \o Frame(r.slice)),
                    !.ec = w, !.terr = (w # "ok")]
    ELSE IF r.k = "Error"
    THEN [CallWriter(st, r) EXCEPT !.ec = "body_err"]
    ELSE [CallWriter(st, r) EXCEPT !.token = "held"]

\* wp.w(...) with the write lambda of the body loop
SyncCallBody(st, r, w) ==
    IF Emits(r)
    THEN [CallWriter(st, r) EXCEPT !.log = Append(@, Frame(r.slice)),
                    !.ec = w, !.terr = (w # "ok")]
    ELSE IF r.k = "Error"
    THEN [CallWriter(st, r) EXCEPT !.ec = "body_err"]
    ELSE [CallWriter(st, r) EXCEPT !.token = "held"]

\* the suspension branch of the first block: the header goes out on its own
SyncFlushHeader(st, w) ==
    IF w # "ok"
    THEN [st EXCEPT !.log = Append(@, st.sb), !.ec = w, !.terr = TRUE, !.pc = "done"]
    ELSE [st EXCEPT !.log = Append(@, st.sb), !.sb = <<>>, !.copy = "fresh",
                    !.pc = "w1"]

\* the checks that follow the first produce call
SyncAfterHeaderBody(st, r, w) ==
    IF st.ec # "ok" THEN [st EXCEPT !.pc = "done"]
    ELSE IF r.k = "Done" THEN [st EXCEPT !.pc = "fin"]
    ELSE IF r.k = "Suspended" THEN SyncFlushHeader(st, w)
    ELSE [st EXCEPT !.sb = <<>>, !.pc = "p2"]

\* fault variant of SyncAfterBody: the error check after produce is missing
SyncAfterBody_NoErrorCheck(st, r) ==
    IF r.k = "Done" THEN [st EXCEPT !.pc = "p1"]
    ELSE IF r.k = "Suspended" THEN [st EXCEPT !.copy = "fresh", !.pc = "w2"]
    ELSE [st EXCEPT !.pc = "p2"]

\* the checks that follow a produce call of the body loop; the break on
\* Done leaves the inner for(;;) only, so the outer for(;;) starts over
SyncAfterBody(st, r) ==
    IF st.ec # "ok" THEN [st EXCEPT !.pc = "done"]
    ELSE IF r.k = "Done" THEN [st EXCEPT !.pc = "p1"]
    ELSE IF r.k = "Suspended" THEN [st EXCEPT !.copy = "fresh", !.pc = "w2"]
    ELSE [st EXCEPT !.pc = "p2"]

\* fault variant of SyncFinish: the close signal replaces the error of a
\* failed final chunk write
SyncFinish_SentinelOverError(st, w) ==
    [st EXCEPT !.log = IF msg.chunked THEN Append(@, chunk_encode_final) ELSE @,
               !.nfinal = IF msg.chunked THEN @ + 1 ELSE @,
               !.terr = msg.chunked /\ w # "ok",
               !.ec = IF msg.close THEN "eof"
                      ELSE IF msg.chunked THEN w ELSE @,
               !.pc = "done"]

\* final chunk and close signal
SyncFinish(st, w) ==
    IF msg.chunked /\ w # "ok"
    THEN [st EXCEPT !.log = Append(@, chunk_encode_final), !.nfinal = @ + 1,
                    !.ec = w, !.terr = TRUE, !.pc = "done"]
    ELSE [st EXCEPT !.log = IF msg.chunked THEN Append(@, chunk_encode_final) ELSE @,
                    !.nfinal = IF msg.chunked THEN @ + 1 ELSE @,
                    !.ec = IF msg.close THEN "eof" ELSE @,
                    !.pc = "done"]

\* fault variant of CvWait: the flag stays set when the wait is over
CvWait_KeepReady(st) ==
    IF st.ready THEN [st EXCEPT !.pc = "p2"] ELSE [st EXCEPT !.sleep = TRUE]

\* cv.wait(lock, [&]{ return ready; }); ready = false;  The predicate is
\* tested under the mutex: the thread blocks only while the flag is clear
CvWait(st) ==
    IF st.ready THEN [st EXCEPT !.ready = FALSE, !.pc = "p2"]
    ELSE [st EXCEPT !.sleep = TRUE]

SyncStart ==
    /\ s.pc = "start"
    /\ s' = IF msg.initErr THEN [s EXCEPT !.ec = "init_err", !.pc = "done"]
            ELSE [s EXCEPT !.pc = "p1"]
    /\ UNCHANGED <<msg, script, a>>

SyncProduceHeaderBody ==
    /\ s.pc = "p1"
    /\ \E r \in WriterOutcomes(Len(s.hist)), w \in WriteResults :
          s' = SyncAfterHeaderBody(SyncCallHeaderBody(s, r, w), r, w)
    /\ UNCHANGED <<msg, script, a>>

SyncWaitFirst ==
    /\ s.pc = "w1"
    /\ ~s.sleep
    /\ s' = [CvWait(s) EXCEPT !.sb = IF s.ready THEN <<>> ELSE @]
    /\ UNCHANGED <<msg, script, a>>

SyncProduceBody ==
    /\ s.pc = "p2"
    /\ \E r \in WriterOutcomes(Len(s.hist)), w \in WriteResults :
          s' = SyncAfterBody(SyncCallBody(s, r, w), r)
    /\ UNCHANGED <<msg, script, a>>

SyncWaitBody ==
    /\ s.pc = "w2"
    /\ ~s.sleep
    /\ s' = CvWait(s)
    /\ UNCHANGED <<msg, script, a>>

SyncFinal ==
    /\ s.pc = "fin"
    /\ \E w \in WriteResults : s' = SyncFinish(s, w)
    /\ UNCHANGED <<msg, script, a>>

\* the resume token of write(), invoked by the thread that serves the Body
\* Writer: it sets the flag under the mutex and notifies the waiting thread
SyncResume ==
    /\ s.token = "held"
    /\ s' = [s EXCEPT !.ready = TRUE, !.token = "none", !.sleep = FALSE]
    /\ UNCHANGED <<msg, script, a>>

\* a condition variable may wake its waiter with no notification; the
\* thread then tests the predicate again
SyncSpuriousWake ==
    /\ s.sleep
    /\ s' = [s EXCEPT !.sleep = FALSE]
    /\ UNCHANGED <<msg, script, a>>

(***************************************************************************)
(* Asynchronous engine: detail::write_op                                   *)
(*   a.started   the write_op constructor has run                          *)
(*   a.state     d.state                                                   *)
(*   a.sb        d.wp.sb, the serialized header not yet consumed           *)
(*   a.token     "held" while the Body Writer holds an uninvoked token     *)
(*   a.inflight  async_write operations outstanding on the stream          *)
(*   a.q         invocations of operator() handed to the io_service, each  *)
(*               with the error_code it is bound to                        *)
(*   a.log       payloads of the transport writes, in issue order          *)
(*   a.hist      results of the produce calls made so far                  *)
(*   a.entries   invocations of operator() so far                          *)
(*   a.hcalls    invocations of the caller's handler d.h                   *)
(*   a.hec       the error_code last given to d.h                          *)
(*   a.terr      a transport write has reported an error                   *)
(*   a.nfinal    writes of chunk_encode_final() issued                     *)
(*   a.pend      the values that invocations of operator() which have      *)
(*               issued their async_write inside wp.w have yet to assign   *)
(*               to d.state; empty whenever invocations run one at a time  *)
(*   a.races     invocations begun while a.pend was not empty              *)
(*   a.copy      "fresh" while d.copy holds a token, "empty" once moved    *)
(*               from or cleared                                           *)
(*   a.stale     a produce call was handed an empty token                  *)
(*   a.nested    an invocation of operator() has run inside the call of    *)
(*               a resume token, on the stack of the token's invoker       *)
(***************************************************************************)
AsyncInitial ==
    [started |-> FALSE, state |-> 0, sb |-> msg.header, token |-> "none",
     inflight |-> 0, q |-> <<>>, log |-> <<>>, hist |-> <<>>,
     entries |-> 0, hcalls |-> 0, hec |-> "none", terr |-> FALSE,
     nfinal |-> 0, pend |-> <<>>, races |-> 0, nested |-> FALSE,
     copy |-> "fresh", stale |-> FALSE]

\* one pass of the switch gives the data, the error_code and whether the
\* case returned (ret) or broke out to the loop test
Step(d, ec, ret) == [d |-> d, ec |-> ec, ret |-> ret]

\* fault variant of Case0: the error of init is not looked at
Case0_IgnoreInitError(d, ec) == Step([d EXCEPT !.state = 1], ec, FALSE)

\* case 0
Case0(d, ec) ==
    IF msg.initErr
    THEN Step([d EXCEPT !.state = 99, !.q = Append(@, "init_err")], "init_err", TRUE)
    ELSE Step([d EXCEPT !.state = 1], ec, FALSE)

\* fault variant of Case1: on suspension the pending header is sent at once
Case1_FlushOnSuspend(d, ec, r) ==
    IF r.k = "Error"
    THEN Step([CallWriter(d, r) EXCEPT !.state = 99,
                        !.q = Append(@, "body_err")], "body_err", TRUE)
    ELSE IF r.k = "Suspended"
    THEN Step([CallWriter(d, r) EXCEPT !.token = "held", !.copy = "fresh",
                        !.log = Append(@, d.sb), !.sb = <<>>,
                        !.inflight = @ + 1, !.state = 3], ec, TRUE)
    ELSE Step([CallWriter(d, r) EXCEPT !.log = Append(@, d.sb \o Frame(r.slice)),
                        !.inflight = @ + 1,
                        !.state = IF r.k = "Done"
                                  THEN (IF msg.chunked THEN 4 ELSE 5)
                                  ELSE 2], ec, TRUE)

\* fault variant of Case1: after a slice with more to follow the state stays 1
Case1_StayInHeaderPhase(d, ec, r) ==
    IF r.k = "Error"
    THEN Step([CallWriter(d, r) EXCEPT !.state = 99,
                        !.q = Append(@, "body_err")], "body_err", TRUE)
    ELSE IF r.k = "Suspended"
    THEN Step([CallWriter(d, r) EXCEPT !.token = "held", !.copy = "fresh"], ec, TRUE)
    ELSE Step([CallWriter(d, r) EXCEPT !.log = Append(@, d.sb \o Frame(r.slice)),
                        !.inflight = @ + 1,
                        !.state = IF r.k = "Done"
                                  THEN (IF msg.chunked THEN 4 ELSE 5)
                                  ELSE 1], ec, TRUE)

\* fault variant of Case1: Done always leads to the final chunk state
Case1_AlwaysFinalChunk(d, ec, r) ==
    IF r.k = "Error"
    THEN Step([CallWriter(d, r) EXCEPT !.state = 99,
                        !.q = Append(@, "body_err")], "body_err", TRUE)
    ELSE IF r.k = "Suspended"
    THEN Step([CallWriter(d, r) EXCEPT !.token = "held", !.copy = "fresh"], ec, TRUE)
    ELSE Step([CallWriter(d, r) EXCEPT !.log = Append(@, d.sb \o Frame(r.slice)),
                        !.inflight = @ + 1,
                        !.state = IF r.k = "Done" THEN 4 ELSE 2], ec, TRUE)

\* fault variant of Case1: a produce error breaks out to the handler call
\* instead of posting the write_op
Case1_BreakOnError(d, ec, r) ==
    IF r.k = "Error"
    THEN Step([CallWriter(d, r) EXCEPT !.state = 99], "body_err", FALSE)
    ELSE IF r.k = "Suspended"
    THEN Step([CallWriter(d, r) EXCEPT !.token = "held", !.copy = "fresh"], ec, TRUE)
    ELSE Step([CallWriter(d, r) EXCEPT
                        !.log = Append(@, d.sb \o Frame(r.slice)),
                        !.inflight = @ + 1,
                        !.state = IF r.k = "Done"
                                  THEN (IF msg.chunked THEN 4 ELSE 5)
                                  ELSE 2], ec, TRUE)

\* fault variant of Case1: on suspension the token is not made anew
Case1_KeepMovedToken(d, ec, r) ==
    IF r.k = "Error"
    THEN Step([CallWriter(d, r) EXCEPT !.state = 99,
                        !.q = Append(@, "body_err")], "body_err", TRUE)
    ELSE IF r.k = "Suspended"
    THEN Step([CallWriter(d, r) EXCEPT !.token = "held"], ec, TRUE)
    ELSE Step([CallWriter(d, r) EXCEPT
                        !.log = Append(@, d.sb \o Frame(r.slice)),
                        !.inflight = @ + 1,
                        !.state = IF r.k = "Done"
                                  THEN (IF msg.chunked THEN 4 ELSE 5)
                                  ELSE 2], ec, TRUE)

\* case 1: the write lambda sends the pending header with the slice
Case1(d, ec, r) ==
    IF r.k = "Error"
    THEN Step([CallWriter(d, r) EXCEPT !.state = 99,
                        !.q = Append(@, "body_err")], "body_err", TRUE)
    ELSE IF r.k = "Suspended"
    THEN Step([CallWriter(d, r) EXCEPT !.token = "held", !.copy = "fresh"], ec, TRUE)
    ELSE Step([CallWriter(d, r) EXCEPT !.log = Append(@, d.sb \o Frame(r.slice)),
                        !.inflight = @ + 1,
                        !.state = IF r.k = "Done"
                                  THEN (IF msg.chunked THEN 4 ELSE 5)
                                  ELSE 2], ec, TRUE)

\* case 2
Case2(d, ec) == Step([d EXCEPT !.sb = <<>>, !.state = 3], ec, FALSE)

\* fault variant of Case3: a produce error returns instead of breaking out
\* to the handler call
Case3_ReturnOnError(d, ec, r) ==
    IF r.k = "Error"
    THEN Step([CallWriter(d, r) EXCEPT !.state = 99], "body_err", TRUE)
    ELSE IF r.k = "Suspended"
    THEN Step([CallWriter(d, r) EXCEPT !.token = "held", !.copy = "fresh"], ec, TRUE)
    ELSE Step([CallWriter(d, r) EXCEPT !.log = Append(@, Frame(r.slice)),
                        !.inflight = @ + 1,
                        !.state = IF r.k = "Done"
                                  THEN (IF msg.chunked THEN 4 ELSE 5)
                                  ELSE 2], ec, TRUE)

\* fault variant of Case3: Done always leads to the final chunk state
Case3_AlwaysFinalChunk(d, ec, r) ==
    IF r.k = "Error"
    THEN Step([CallWriter(d, r) EXCEPT !.state = 99], "body_err", FALSE)
    ELSE IF r.k = "Suspended"
    THEN Step([CallWriter(d, r) EXCEPT !.token = "held", !.copy = "fresh"], ec, TRUE)
    ELSE Step([CallWriter(d, r) EXCEPT !.log = Append(@, Frame(r.slice)),
                        !.inflight = @ + 1,
                        !.state = IF r.k = "Done" THEN 4 ELSE 2], ec, TRUE)

\* case 3: the write lambda sends the slice alone
Case3(d, ec, r) ==
    IF r.k = "Error"
    THEN Step([CallWriter(d, r) EXCEPT !.state = 99], "body_err", FALSE)
    ELSE IF r.k = "Suspended"
    THEN Step([CallWriter(d, r) EXCEPT !.token = "held", !.copy = "fresh"], ec, TRUE)
    ELSE Step([CallWriter(d, r) EXCEPT !.log = Append(@, Frame(r.slice)),
                        !.inflight = @ + 1,
                        !.state = IF r.k = "Done"
                                  THEN (IF msg.chunked THEN 4 ELSE 5)
                                  ELSE 2], ec, TRUE)

\* case 4
Case4(d, ec) ==
    Step([d EXCEPT !.state = 5, !.log = Append(@, chunk_encode_final),
                   !.nfinal = @ + 1, !.inflight = @ + 1], ec, TRUE)

\* fault variant of Case5: the close flag is not looked at
Case5_NoSentinel(d, ec) == Step([d EXCEPT !.state = 99], ec, FALSE)

\* case 5
Case5(d, ec) ==
    Step([d EXCEPT !.state = 99], IF msg.close THEN "eof" ELSE ec, FALSE)

\* d.h(ec) after the loop, then d.resume = {}; d.copy = {};
CallHandler(d, ec) == [d EXCEPT !.hcalls = @ + 1, !.hec = ec, !.copy = "empty"]

Switch(d, ec, r) ==
    CASE d.state = 0 -> Case0(d, ec)
      [] d.state = 1 -> Case1(d, ec, r)
      [] d.state = 2 -> Case2(d, ec)
      [] d.state = 3 -> Case3(d, ec, r)
      [] d.state = 4 -> Case4(d, ec)
      [] d.state = 5 -> Case5(d, ec)

\* write_op::operator()(ec, bytes_transferred, again); r is what the Body
\* Writer answers if this invocation calls it
RECURSIVE write_op_call(_, _, _)
write_op_call(d, ec, r) ==
    IF ec = "ok" /\ d.state # 99
    THEN LET x == Switch(d, ec, r)
         IN  IF x.ret THEN x.d ELSE write_op_call(x.d, x.ec, r)
    ELSE CallHandler(d, ec)

\* async_write(stream, msg, token): the write_op constructor runs the first step
AsyncStart ==
    /\ ~a.started
    /\ \E r \in WriterOutcomes(Len(a.hist)) :
          a' = write_op_call([a EXCEPT !.started = TRUE, !.entries = 1], "ok", r)
    /\ UNCHANGED <<msg, script, s>>

\* the stream completes the outstanding async_write and the io_service
\* gets the bound write_op to run
AsyncWriteComplete ==
    /\ a.inflight > 0
    /\ \E w \in WriteResults :
          a' = [a EXCEPT !.inflight = @ - 1, !.q = Append(@, w),
                         !.terr = (w # "ok")]
    /\ UNCHANGED <<msg, script, s>>

\* the io_service runs the next bound write_op
AsyncReenter ==
    /\ a.q # <<>>
    /\ \E r \in WriterOutcomes(Len(a.hist)) :
          a' = write_op_call([a EXCEPT !.q = Tail(@), !.entries = @ + 1], Head(a.q), r)
    /\ UNCHANGED <<msg, script, s>>

\* the token has been called: ios.dispatch runs the bound write_op before it
\* returns when the caller is inside the io_service (inline), and hands it
\* to the io_service otherwise
Dispatched(d, inline, r) ==
    IF inline
    THEN write_op_call([d EXCEPT !.token = "none", !.entries = @ + 1,
                                 !.nested = TRUE], "ok", r)
    ELSE [d EXCEPT !.token = "none", !.q = Append(@, "ok")]

\* the resume token of the write_op, invoked by the party that serves the
\* Body Writer, from a thread of the io_service or from any other thread
AsyncResume ==
    /\ a.token = "held"
    /\ \E inline \in BOOLEAN, r \in WriterOutcomes(Len(a.hist)) :
          a' = Dispatched(a, inline, r)
    /\ UNCHANGED <<msg, script, s>>

(***************************************************************************)
(* Specification                                                           *)
(***************************************************************************)
Init ==
    /\ \E inp \in Inputs : msg = inp.m /\ script = inp.sc
    /\ s = SyncInitial
    /\ a = AsyncInitial

Next ==
    \/ SyncStart
    \/ SyncProduceHeaderBody
    \/ SyncWaitFirst
    \/ SyncProduceBody
    \/ SyncWaitBody
    \/ SyncFinal
    \/ SyncResume
    \/ SyncSpuriousWake
    \/ AsyncStart
    \/ AsyncWriteComplete
    \/ AsyncReenter
    \/ AsyncResume

Spec == Init /\ [][Next]_vars

(***************************************************************************)
(* The same write_op on an io_service run by several threads: the          *)
(* completion of an async_write may be delivered, and the bound write_op   *)
(* run, on another thread while the invocation that issued the write from  *)
(* inside wp.w has not yet assigned d.state.                               *)
(***************************************************************************)
RemoveAt(q, i) == [j \in 1..(Len(q) - 1) |-> IF j < i THEN q[j] ELSE q[j + 1]]

\* operator() up to the return of wp.w: a write issued by the write lambda
\* is outstanding, the assignment to d.state that follows is still to come
ThreadedCall(d, ec, r) ==
    LET x == write_op_call(d, ec, r)
        calledIn == IF d.state \in {0, 1} THEN 1 ELSE 3
    IN  IF ec = "ok" /\ Len(x.hist) > Len(d.hist) /\ Emits(r)
        THEN [x EXCEPT !.state = calledIn, !.pend = Append(@, x.state)]
        ELSE x

ThreadedStart ==
    /\ ~a.started
    /\ \E r \in WriterOutcomes(Len(a.hist)) :
          a' = ThreadedCall([a EXCEPT !.started = TRUE, !.entries = 1], "ok", r)
    /\ UNCHANGED <<msg, script, s>>

ThreadedReenter ==
    /\ a.q # <<>>
    /\ a.pend = <<>> \/ a.races < MaxRaces
    /\ \E r \in WriterOutcomes(Len(a.hist)) :
          a' = ThreadedCall([a EXCEPT !.q = Tail(@), !.entries = @ + 1,
                                      !.races = IF a.pend = <<>> THEN @ ELSE @ + 1],
                            Head(a.q), r)
    /\ UNCHANGED <<msg, script, s>>

\* the assignment to d.state after wp.w has returned
ThreadedAssign ==
    /\ \E i \in DOMAIN a.pend :
          a' = [a EXCEPT !.state = a.pend[i], !.pend = RemoveAt(a.pend, i)]
    /\ UNCHANGED <<msg, script, s>>

\* the resume token invoked while the io_service is run by several threads
ThreadedResume ==
    /\ a.token = "held"
    /\ \E inline \in BOOLEAN, r \in WriterOutcomes(Len(a.hist)) :
          a' = IF inline
               THEN ThreadedCall([a EXCEPT !.token = "none", !.entries = @ + 1,
                                           !.nested = TRUE], "ok", r)
               ELSE Dispatched(a, FALSE, r)
    /\ UNCHANGED <<msg, script, s>>

ThreadedNext ==
    \/ ThreadedStart
    \/ ThreadedReenter
    \/ ThreadedAssign
    \/ ThreadedResume
    \/ AsyncWriteComplete

ThreadedSpec == Init /\ [][ThreadedNext]_vars

(***************************************************************************)
(* Vocabulary of the properties                                            *)
(***************************************************************************)
\* the slices of the emitting results of a result sequence, in order
RECURSIVE SlicesOf(_)
SlicesOf(h) ==
    IF h = <<>> THEN <<>>
    ELSE (IF Emits(Head(h)) THEN <<Head(h).slice>> ELSE <<>>) \o SlicesOf(Tail(h))

RECURSIVE FramedConcat(_)
FramedConcat(ss) ==
    IF ss = <<>> THEN <<>> ELSE chunk_encode(Head(ss)) \o FramedConcat(Tail(ss))

NSuspended(h) == Cardinality({i \in DOMAIN h : h[i].k = "Suspended"})

HasError(h) == \E i \in DOMAIN h : h[i].k = "Error"

LastIsError(h) == h # <<>> /\ h[Len(h)].k = "Error"

\* the Body Writer's result sequence ends in Done: a body without error
ScriptDone == script[Len(script)].k = "Done"

\* write() has returned
SyncReturned == s.pc = "done"

\* the caller's completion handler has run
AsyncCompleted == a.hcalls >= 1

\* neither the Body Writer nor the transport has reported an error
NoError(e) == ~msg.initErr /\ ~e.terr /\ ~HasError(e.hist)

SyncNormal == SyncReturned /\ NoError(s)

AsyncNormal == AsyncCompleted /\ NoError(a)

ChunkedPayload == msg.header \o FramedConcat(SlicesOf(script)) \o chunk_encode_final

RawPayload == msg.header \o Flatten(SlicesOf(script))

(***************************************************************************)
(* Properties                                                              *)
(***************************************************************************)
\* C1: for a chunked message whose Body Writer produces NotDone slices and
\* then Done, with suspensions anywhere and no error, the bytes written when
\* the write completes are the header, the chunk-framed slices in order and
\* the final chunk, in both engines.
C1_ChunkedPayloadBothEngines ==
    (msg.chunked /\ ScriptDone) =>
        /\ SyncNormal => Flatten(s.log) = ChunkedPayload
        /\ AsyncNormal => Flatten(a.log) = ChunkedPayload

\* C2: for a content-length message whose Body Writer produces NotDone
\* slices and then Done, with suspensions anywhere and no error, the bytes
\* written when the write completes are the header and the raw slices in
\* order, in both engines.
C2_RawPayloadBothEngines ==
    (~msg.chunked /\ ScriptDone) =>
        /\ SyncNormal => Flatten(s.log) = RawPayload
        /\ AsyncNormal => Flatten(a.log) = RawPayload

\* C3: on the same message and the same Body Writer result sequence the two
\* engines issue the same transport writes: as many, with the same bytes.
C3_SameWrites ==
    (ScriptDone /\ SyncNormal /\ AsyncNormal) => s.log = a.log

\* C4: in the asynchronous engine a Body Writer that suspends N times causes
\* at least N re-entries after the first step, and from a produce call that
\* returned Suspended until its token is invoked the engine issues no
\* transport write and has nothing in progress.
C4_AsyncIdleWhileSuspended ==
    /\ [](AsyncCompleted => a.entries - 1 >= NSuspended(a.hist))
    /\ [](a.token = "held" => a.inflight = 0 /\ a.q = <<>>)
    /\ [][a'.token = "held" => a'.log = a.log]_vars
    /\ [][a.token = "held" /\ a'.log # a.log => a'.entries = a.entries + 1]_vars

C4_Witness ==
    /\ AsyncNormal
    /\ NSuspended(a.hist) = 2
    /\ a.entries >= 3
    /\ Len(a.log) >= 1

\* C5: a write that meets no body-source error and no transport error is
\* reported with the end-of-stream sentinel when close_after is set, and
\* with plain success when it is not, in both engines.
C5_CloseSentinel ==
    /\ SyncNormal => s.ec = (IF msg.close THEN "eof" ELSE "ok")
    /\ AsyncNormal => a.hec = (IF msg.close THEN "eof" ELSE "ok")

C5_Witness ==
    /\ msg.close
    /\ SyncNormal /\ s.ec = "eof"
    /\ AsyncNormal /\ a.hec = "eof"
    /\ NSuspended(a.hist) >= 1

\* C6: once a produce call has set an error, neither engine issues a
\* transport write or calls produce again, and the write is reported with
\* that error; when the error comes on the second call after a first slice,
\* the whole operation has issued exactly one transport write.
C6_BodyErrorStops ==
    /\ [](SyncReturned /\ LastIsError(s.hist) => s.ec = "body_err")
    /\ [](AsyncCompleted /\ LastIsError(a.hist) => a.hec = "body_err")
    /\ []((\E b \in Slices : script = <<NotDone(b), Failed>>) =>
            /\ SyncReturned => Len(s.log) = 1
            /\ AsyncCompleted => Len(a.log) = 1)
    /\ [][LastIsError(s'.hist) =>
            /\ s'.log = s.log
            /\ LastIsError(s.hist) => s'.hist = s.hist]_vars
    /\ [][LastIsError(a'.hist) =>
            /\ a'.log = a.log
            /\ LastIsError(a.hist) => a'.hist = a.hist]_vars

C6_Witness ==
    /\ script = <<NotDone(hello), Failed>>
    /\ msg.close
    /\ SyncReturned /\ s.ec = "body_err" /\ Len(s.log) = 1
    /\ AsyncCompleted /\ a.hec = "body_err" /\ Len(a.log) = 1

\* the asynchronous operation has nothing left that could run it again
AsyncQuiescent ==
    a.started /\ a.inflight = 0 /\ a.q = <<>> /\ a.token # "held"

\* an error has been met by the asynchronous operation
AsyncErrorMet == a.terr \/ HasError(a.hist) \/ (msg.initErr /\ a.started)

\* C7: the asynchronous engine invokes the completion handler exactly once:
\* never twice, and once by the time nothing is left to run, whatever the
\* outcome; after an error it issues no further transport write.
C7_HandlerExactlyOnce ==
    /\ [](a.hcalls <= 1)
    /\ [](AsyncQuiescent => a.hcalls = 1)
    /\ [][AsyncErrorMet => a'.log = a.log]_vars

C7_Witness ==
    /\ AsyncQuiescent
    /\ a.hcalls = 1
    /\ a.hec = "body_err"
    /\ Len(a.hist) >= 2

\* C8: after a transport write has reported an error neither engine issues
\* a write or calls produce again, and the operation is reported with that
\* transport error, also when close_after is set and when the failed write
\* was the last one.
C8_TransportErrorStops ==
    /\ [](SyncReturned /\ s.terr => s.ec = "write_err")
    /\ [](AsyncCompleted /\ a.terr => a.hec = "write_err")
    /\ [][s.terr => s'.log = s.log /\ s'.hist = s.hist]_vars
    /\ [][a.terr => a'.log = a.log /\ a'.hist = a.hist]_vars

C8_Witness ==
    /\ msg.chunked /\ msg.close
    /\ SyncReturned /\ s.terr /\ s.ec = "write_err"
    /\ s.log[Len(s.log)] = chunk_encode_final
    /\ AsyncCompleted /\ a.terr /\ a.hec = "write_err"
    /\ a.log[Len(a.log)] = chunk_encode_final

(***************************************************************************)
(* Liveness                                                                *)
(***************************************************************************)
\* the suspension a token belongs to lies within the Body Writer's lifecycle
InLifecycle(e) == Len(e.hist) <= Len(script)

\* The calling thread of write() keeps running, every issued transport
\* write completes, the io_service runs what it is handed, and a token the
\* Body Writer stored during its lifecycle is invoked.  A Body Writer that
\* is asked again after its Done owes no invocation.
Fairness ==
    /\ WF_vars(SyncStart)
    /\ WF_vars(SyncProduceHeaderBody)
    /\ WF_vars(SyncWaitFirst)
    /\ WF_vars(SyncProduceBody)
    /\ WF_vars(SyncWaitBody)
    /\ WF_vars(SyncFinal)
    /\ WF_vars(SyncResume /\ InLifecycle(s))
    /\ WF_vars(AsyncStart)
    /\ WF_vars(AsyncWriteComplete)
    /\ WF_vars(AsyncReenter)
    /\ WF_vars(AsyncResume /\ InLifecycle(a))

LiveSpec == Init /\ [][Next]_vars /\ Fairness

\* C9: every message write eventually terminates: write() returns and the
\* asynchronous engine invokes its completion handler.
C9_EveryWriteTerminates == <>SyncReturned /\ <>AsyncCompleted

\* C10: when the Body Writer suspends once and then emits an empty slice
\* with Done, produce is called exactly twice, the chunked message ends in
\* the framed empty slice followed by the dedicated final chunk, and the
\* content-length message consists of exactly the header bytes.
C10_SuspendThenEmptyDone ==
    (script = <<Suspended, Done(<<>>)>>) =>
        /\ Len(s.hist) <= 2
        /\ Len(a.hist) <= 2
        /\ SyncNormal =>
             /\ Len(s.hist) = 2
             /\ Flatten(s.log) = (IF msg.chunked THEN ChunkedPayload ELSE msg.header)
             /\ msg.chunked => s.log[Len(s.log)] = chunk_encode_final
        /\ AsyncNormal =>
             /\ Len(a.hist) = 2
             /\ Flatten(a.log) = (IF msg.chunked THEN ChunkedPayload ELSE msg.header)
             /\ msg.chunked => a.log[Len(a.log)] = chunk_encode_final

\* a result after which the Body Writer's lifecycle is over
Ends(r) == r.k \in {"Done", "Error"}

\* produce was never called after a Done or an error
StopsAtEnd(h) == \A i \in DOMAIN h : Ends(h[i]) => i = Len(h)

\* C11: in both engines produce is called only after init has succeeded,
\* and never again once a produce call has returned Done or set an error.
C11_ProduceLifecycle ==
    /\ msg.initErr => (s.hist = <<>> /\ a.hist = <<>>)
    /\ StopsAtEnd(s.hist)
    /\ StopsAtEnd(a.hist)

\* the payload starts with the serialized header
RECURSIVE IsPrefix(_, _)
IsPrefix(p, q) ==
    \/ p = <<>>
    \/ /\ q # <<>>
       /\ Head(p) = Head(q)
       /\ IsPrefix(Tail(p), Tail(q))

\* the transport writes that carry the header bytes
HeaderWrites(log) == {i \in DOMAIN log : IsPrefix(msg.header, log[i])}

\* C12: in both engines the header bytes go out in at most one transport
\* write, which is the first one, and in exactly one when the operation
\* completes without error.
C12_HeaderWrittenOnce ==
    /\ HeaderWrites(s.log) \subseteq {1}
    /\ HeaderWrites(a.log) \subseteq {1}
    /\ SyncNormal => HeaderWrites(s.log) = {1}
    /\ AsyncNormal => HeaderWrites(a.log) = {1}

C12_Witness ==
    /\ script[1].k = "Suspended"
    /\ SyncNormal /\ Len(s.log) >= 3
    /\ AsyncNormal /\ Len(a.log) >= 2

\* C13: the header bytes never cost a transport write of their own: the
\* first write carries the header followed by the first emitted slice, so
\* an operation that completes without error has issued one write per
\* emitted slice, plus one for the final chunk when chunked.
C13_HeaderCoalesced ==
    /\ SyncNormal =>
         /\ Len(s.log) = Len(SlicesOf(s.hist)) + (IF msg.chunked THEN 1 ELSE 0)
         /\ s.log[1] = msg.header \o Frame(SlicesOf(s.hist)[1])
    /\ AsyncNormal =>
         /\ Len(a.log) = Len(SlicesOf(a.hist)) + (IF msg.chunked THEN 1 ELSE 0)
         /\ a.log[1] = msg.header \o Frame(SlicesOf(a.hist)[1])

\* the last produce call returned Done
LastIsDone(h) == h # <<>> /\ h[Len(h)].k = "Done"

\* the final chunk write of an engine, if issued, is in order: the message
\* is chunked, the Body Writer has returned Done, it is the only one and
\* the last write
FinalChunkInOrder(e) ==
    /\ e.nfinal <= 1
    /\ e.nfinal = 1 =>
         /\ msg.chunked
         /\ LastIsDone(e.hist)
         /\ e.log[Len(e.log)] = chunk_encode_final

\* C14: in a chunked message the final chunk is written exactly once, only
\* after the Body Writer returned Done and the last slice's write succeeded,
\* and it is the last transport write; in a content-length message it is
\* never written.
C14_FinalChunkOnceAndLast ==
    /\ [](FinalChunkInOrder(s) /\ FinalChunkInOrder(a))
    /\ [](~msg.chunked => (s.nfinal = 0 /\ a.nfinal = 0))
    /\ [](msg.chunked /\ SyncNormal => s.nfinal = 1)
    /\ [](msg.chunked /\ AsyncNormal => a.nfinal = 1)
    /\ [][s'.nfinal > s.nfinal => (~s.terr /\ LastIsDone(s.hist) /\ s'.hist = s.hist)]_vars
    /\ [][a'.nfinal > a.nfinal =>
            (~a.terr /\ a.inflight = 0 /\ LastIsDone(a.hist) /\ a'.hist = a.hist)]_vars
    /\ [][s.nfinal = 1 => s'.log = s.log]_vars
    /\ [][a.nfinal = 1 => a'.log = a.log]_vars

C14_Witness ==
    /\ msg.chunked
    /\ SyncNormal /\ s.nfinal = 1 /\ Len(s.log) >= 3
    /\ AsyncNormal /\ a.nfinal = 1 /\ Len(a.log) >= 3
    /\ NSuspended(a.hist) >= 1

\* the order of the phases of write_op
PhaseOrder == <<0, 1, 2, 3, 4, 5, 99>>

PhaseRank(st) == CHOOSE i \in DOMAIN PhaseOrder : PhaseOrder[i] = st

\* a change of d.state that the phase order allows
PhaseMove(from, to) ==
    /\ from \in {0, 1, 2, 3, 4, 5, 99}
    /\ to \in {0, 1, 2, 3, 4, 5, 99}
    /\ \/ PhaseRank(to) >= PhaseRank(from)
       \/ from = 3 /\ to = 2
    /\ to = 4 => msg.chunked

\* every pass of the switch within one invocation of operator() makes an
\* allowed change
RECURSIVE PassesInOrder(_, _, _)
PassesInOrder(d, ec, r) ==
    IF ec = "ok" /\ d.state # 99
    THEN LET x == Switch(d, ec, r)
         IN  /\ PhaseMove(d.state, x.d.state)
             /\ x.ret \/ PassesInOrder(x.d, x.ec, r)
    ELSE TRUE

\* the invocations of operator() that can come next
NextInvocationInOrder ==
    \A r \in WriterOutcomes(Len(a.hist)) :
        /\ ~a.started => PassesInOrder(a, "ok", r)
        /\ a.q # <<>> => PassesInOrder(a, Head(a.q), r)
        /\ a.token = "held" => PassesInOrder(a, "ok", r)

\* C15: d.state only moves forward through 0, 1, 2, 3, 4, 5, 99, except for
\* the step from 3 back to 2; it never returns to 0 or 1, never becomes 4
\* for a content-length message, and never leaves 99.
C15_PhaseMonotonic ==
    /\ [](NextInvocationInOrder)
    /\ [](a.state = 4 => msg.chunked)
    /\ [][PhaseMove(a.state, a'.state)]_vars
    /\ [][a.state = 99 => a'.state = 99]_vars
    /\ [][a.state >= 2 => a'.state >= 2]_vars

C15_Witness ==
    /\ a.state = 99
    /\ a.hcalls = 1
    /\ msg.chunked
    /\ \E i \in DOMAIN a.hist : i > 1 /\ i < Len(a.hist) /\ a.hist[i].k = "NotDone"

\* C16: when init reports an error, neither engine calls produce or issues
\* a transport write, and the operation is reported with the init error.
C16_InitErrorStops ==
    msg.initErr =>
        /\ s.hist = <<>> /\ s.log = <<>>
        /\ a.hist = <<>> /\ a.log = <<>> /\ a.inflight = 0
        /\ SyncReturned => s.ec = "init_err"
        /\ AsyncCompleted => (a.hec = "init_err" /\ a.hcalls = 1)
        /\ AsyncQuiescent => AsyncCompleted

C16_Witness ==
    /\ msg.initErr
    /\ msg.close
    /\ SyncReturned /\ s.ec = "init_err"
    /\ AsyncCompleted /\ a.hec = "init_err"

\* C17: no two executions of operator() on the same operation overlap,
\* whatever threads run the re-entries: an invocation never begins while
\* another has still to assign d.state after issuing its write, and at
\* most one transport write is outstanding.
C17_NoOverlappingInvocations ==
    /\ [](Len(a.pend) <= 1)
    /\ [](a.inflight <= 1)
    /\ [][a'.entries > a.entries => a.pend = <<>>]_vars


\* write() is between a produce call that returned Suspended and the end of
\* the wait that follows it
SyncWaiting == s.pc \in {"w1", "w2"}

\* C18: after a produce call returned Suspended, write() does not call
\* produce again until the token of that suspension has been invoked, and it
\* does once it has been, also when the invocation comes before the thread
\* waits on the condition variable; each invocation releases exactly one
\* suspension, the flag being reset when the wait is over.
C18_SyncSuspensionProtocol ==
    /\ [][s.token = "held" => s'.hist = s.hist /\ s'.log = s.log]_vars
    /\ [](SyncWaiting => (s.ready # (s.token = "held")))
    /\ [](s.sleep => SyncWaiting /\ ~s.ready /\ s.token = "held")
    /\ [](s.pc \in {"p1", "p2", "fin"} => ~s.ready /\ s.token = "none")
    /\ [][SyncWaiting /\ s'.pc = "p2" => s.ready /\ ~s'.ready]_vars
    /\ (SyncWaiting /\ s.token = "none") ~> (s.pc = "p2")

\* the first suspension was released by its token and produce was called
\* again; the thread is now blocked on the second suspension, whose token
\* has not been invoked
C18_Witness ==
    /\ s.hist = <<Suspended, Suspended>>
    /\ s.pc = "w2" /\ s.sleep
    /\ ~s.ready /\ s.token = "held"

\* C19: invoking the token of an asynchronous suspension hands the engine
\* to the scheduler and does nothing else: the step function never runs
\* inside the call of the token, on the stack of the party that invokes it,
\* whichever thread or context the invocation comes from.
C19_ResumeThroughScheduler ==
    /\ [](~a.nested)
    /\ [][a.token = "held" /\ a'.token = "none" =>
            a'.q = Append(a.q, "ok") /\ a'.entries = a.entries]_vars


\* C20: every produce call of either engine is handed a fresh token: after
\* a produce call that returned Suspended, the Body Writer having taken the
\* token, the engine makes the token anew from its master copy before the
\* next produce call, for any number of suspensions in a row.
C20_FreshTokenAtEveryCall ==
    /\ [](~s.stale /\ ~a.stale)
    /\ [](s.pc \in {"p1", "p2"} => s.copy = "fresh")
    /\ [](a.hcalls = 0 => a.copy = "fresh")
    /\ [][Len(s'.hist) > Len(s.hist) => s.copy = "fresh"]_vars
    /\ [][Len(a'.hist) > Len(a.hist) => a.copy = "fresh"]_vars

\* both engines went through two suspensions in a row and a third produce
\* call, and finished
C20_Witness ==
    /\ Len(script) = 3 /\ script[1] = Suspended /\ script[2] = Suspended
    /\ SyncNormal /\ Len(s.hist) >= 3
    /\ AsyncNormal /\ Len(a.hist) >= 3


\* the step in which async_write constructs the write_op and runs it first
FirstStep == ~a.started /\ a'.started

\* C21: the asynchronous engine never invokes the completion handler from
\* inside the initiating async_write call: the first step delivers an init
\* error or a first-produce error by posting a re-entry, and otherwise
\* issues a transport write or suspends and returns, so the handler runs
\* only in a later invocation.
C21_HandlerNotInInitiatingCall ==
    /\ [][FirstStep => a'.hcalls = 0 /\ a'.entries = 1]_vars
    /\ [][FirstStep /\ msg.initErr =>
            a'.q = <<"init_err">> /\ a'.hist = <<>> /\ a'.log = <<>>]_vars
    /\ [][FirstStep /\ LastIsError(a'.hist) =>
            a'.q = <<"body_err">> /\ a'.log = <<>>]_vars
    /\ [][FirstStep /\ ~msg.initErr /\ ~LastIsError(a'.hist) =>
            /\ a'.q = <<>>
            /\ (a'.inflight = 1) # (a'.token = "held")]_vars
    /\ [](a.hcalls > 0 => a.entries >= 2)

\* the first produce call failed in the constructor's step and the handler
\* got that error in the second invocation, the posted one
C21_Witness ==
    /\ a.hist = <<Failed>>
    /\ a.hcalls = 1 /\ a.hec = "body_err"
    /\ a.entries = 2 /\ ~a.nested

====
